---- MODULE Spec2Model ----
(***************************************************************************)
(* Model of the Screen STM32 UART framing engine (core/uart_manager.py):   *)
(* the message type registry, the frame codec (_format_uart and            *)
(* _parse_frame), the dispatcher, the byte-level stream parser and the     *)
(* outbound command methods of UartInterface.                              *)
(*                                                                         *)
(* Bytes are integers 0..255.  Python str values are sequences of code     *)
(* points, bytes values are sequences of bytes.  An exception is the name  *)
(* of its class; "none" stands for a normal return.                        *)
(***************************************************************************)
EXTENDS Integers, Sequences, FiniteSets, TLC

\* ------------------------------------------------------------------------
\* Module constants of uart_manager.py
\* ------------------------------------------------------------------------
_START_BYTE == 138
_STOP_BYTE == 81
_UART_HEADER_LENGTH == 2
_UART_FOOTER_LENGTH == 1
_UART_OVERHEAD_LENGTH == _UART_HEADER_LENGTH + _UART_FOOTER_LENGTH
_UART_MIN_FRAME_LENGTH == _UART_OVERHEAD_LENGTH
_UART_MAX_DATA_LENGTH == 16
MAX_TOOL_ID == 7

\* Width of the ljust() padding in set_tool_name and the pad character ' '.
TOOL_NAME_WIDTH == 16
SPACE == 32

\* ------------------------------------------------------------------------
\* Bounds of the model
\* ------------------------------------------------------------------------
\* Segments (frame attempts or noise bytes) in one input stream.
MaxSegments == 3
\* Bytes handed to one io_bytes_received call.
MaxChunk == 3
\* Longest tool name tried by set_tool_name.
MaxNameLen == 17
\* set_tool_id is tried for every integer from -ToolArgSpan to
\* MAX_TOOL_ID + ToolArgSpan.
ToolArgSpan == 2
\* Longest arbitrary byte string handed to _parse_frame.
MaxFrameLen == 5
\* Longest payload handed to _format_uart.
MaxDataLen == 17
\* Segments in one input stream of the run loop with its queues.
MaxRunSegments == 1
\* Messages the TCP server may have waiting on to_stm32_queue.
MaxQueue == 1
\* Bytes fed to each of the two links.
MaxLinkBytes == 4
\* Calls of start_robot.
MaxStarts == 2

\* ------------------------------------------------------------------------
\* Sequence helpers
\* ------------------------------------------------------------------------
Min(a, b) == IF a < b THEN a ELSE b

\* The slice s[lo:], the upper index forgotten.
Slice_to_end(s, lo, hi) == SubSeq(s, lo + 1, Len(s))

\* Python slice s[lo:hi] with 0-based lo (inclusive) and hi (exclusive).
Slice(s, lo, hi) == IF hi <= lo THEN <<>> ELSE SubSeq(s, lo + 1, hi)

Repeat(x, n) == [i \in 1..n |-> x]

RECURSIVE Concat(_)
Concat(ss) == IF ss = <<>> THEN <<>> ELSE Head(ss) \o Concat(Tail(ss))

\* ------------------------------------------------------------------------
\* ArmState and MessageType enumerations
\* ------------------------------------------------------------------------
ArmState == [IDLE |-> 1, READY |-> 2, CLOSED |-> 4, DISPLAY |-> 8]

\* Every value from IDLE to DISPLAY taken as a state.
ArmStateValues_range == ArmState.IDLE..ArmState.DISPLAY

ArmStateValues == {ArmState[n] : n \in DOMAIN ArmState}

MessageType ==
    [TOOL_ID            |-> [code |-> 1,   from_stm32 |-> FALSE, data_len |-> 1],
     TOOL_NAME          |-> [code |-> 2,   from_stm32 |-> FALSE, data_len |-> 16],
     FOLLOW_MODE_ENABLE |-> [code |-> 4,   from_stm32 |-> FALSE, data_len |-> 1],
     RFID_VALID         |-> [code |-> 8,   from_stm32 |-> FALSE, data_len |-> 1],
     BATTERY_LEVEL      |-> [code |-> 129, from_stm32 |-> TRUE,  data_len |-> 1],
     ARM_STATUS         |-> [code |-> 130, from_stm32 |-> TRUE,  data_len |-> 1],
     RFID_VALUE         |-> [code |-> 132, from_stm32 |-> TRUE,  data_len |-> 4]]

MessageTypes == DOMAIN MessageType

\* MessageType.to_bytes reading the wrong attribute of the entry.
MessageType_to_bytes_len(msg_type) == <<MessageType[msg_type].data_len>>

\* MessageType.to_bytes: the one-byte code of the entry.
MessageType_to_bytes(msg_type) == <<MessageType[msg_type].code>>

\* MessageType.from_bytes: the entry with that code, or "ValueError".
MessageType_from_bytes(value) ==
    IF \E t \in MessageTypes : MessageType[t].code = value
    THEN CHOOSE t \in MessageTypes : MessageType[t].code = value
    ELSE "ValueError"

\* ------------------------------------------------------------------------
\* bytes.hex(): two lowercase hexadecimal digits per byte, as code points.
\* ------------------------------------------------------------------------
\* The digits of an uppercase rendering.
HexDigits_upper == <<48, 49, 50, 51, 52, 53, 54, 55, 56, 57, 65, 66, 67, 68, 69, 70>>

HexDigits == <<48, 49, 50, 51, 52, 53, 54, 55, 56, 57, 97, 98, 99, 100, 101, 102>>

RECURSIVE Hex(_)
Hex(data) ==
    IF data = <<>> THEN <<>>
    ELSE <<HexDigits[(Head(data) \div 16) + 1], HexDigits[(Head(data) % 16) + 1]>>
         \o Hex(Tail(data))

\* ------------------------------------------------------------------------
\* Frame codec
\* ------------------------------------------------------------------------
\* _format_uart without the test against _UART_MAX_DATA_LENGTH.
_format_uart_no_max(msg_type, data) ==
    IF msg_type \notin MessageTypes
    THEN [err |-> "UnknownMessageTypeError", frame |-> <<>>]
    ELSE IF Len(data) # MessageType[msg_type].data_len
    THEN [err |-> "InvalidDataError", frame |-> <<>>]
    ELSE [err |-> "none",
          frame |-> <<_START_BYTE>> \o MessageType_to_bytes(msg_type)
                    \o data \o <<_STOP_BYTE>>]

\* _format_uart without the stop byte.
_format_uart_no_stop(msg_type, data) ==
    IF Len(data) > _UART_MAX_DATA_LENGTH
    THEN [err |-> "PayloadTooLongError", frame |-> <<>>]
    ELSE IF msg_type \notin MessageTypes
    THEN [err |-> "UnknownMessageTypeError", frame |-> <<>>]
    ELSE IF Len(data) # MessageType[msg_type].data_len
    THEN [err |-> "InvalidDataError", frame |-> <<>>]
    ELSE [err |-> "none",
          frame |-> <<_START_BYTE>> \o MessageType_to_bytes(msg_type) \o data]

\* _format_uart: the frame, or the exception raised instead.
_format_uart(msg_type, data) ==
    IF Len(data) > _UART_MAX_DATA_LENGTH
    THEN [err |-> "PayloadTooLongError", frame |-> <<>>]
    ELSE IF msg_type \notin MessageTypes
    THEN [err |-> "UnknownMessageTypeError", frame |-> <<>>]
    ELSE IF Len(data) # MessageType[msg_type].data_len
    THEN [err |-> "InvalidDataError", frame |-> <<>>]
    ELSE [err |-> "none",
          frame |-> <<_START_BYTE>> \o MessageType_to_bytes(msg_type)
                    \o data \o <<_STOP_BYTE>>]

\* A handler call made by the dispatcher: the callback and its argument
\* (a str as code points, an int or an ArmState as a one-element sequence).
Call(cb, arg) == [cb |-> cb, arg |-> arg]

\* _dispatch_callback: the handler calls made and the exception raised.
_dispatch_callback(msg_type, data) ==
    IF ~MessageType[msg_type].from_stm32
    THEN [err |-> "none", calls |-> <<>>]
    ELSE IF msg_type = "RFID_VALUE"
    THEN [err |-> "none", calls |-> <<Call("cb_rfid_received", Hex(data))>>]
    ELSE IF msg_type = "ARM_STATUS"
    THEN IF data[1] \in ArmStateValues
         THEN [err |-> "none", calls |-> <<Call("cb_arm_state", <<data[1]>>)>>]
         ELSE [err |-> "InvalidDataError", calls |-> <<>>]
    ELSE IF msg_type = "BATTERY_LEVEL"
    THEN [err |-> "none", calls |-> <<Call("cb_battery_level", <<data[1]>>)>>]
    ELSE [err |-> "none", calls |-> <<>>]

\* The structural checks with the stop byte tested before the start byte.
_parse_frame_checks_end_first(frame) ==
    IF Len(frame) < _UART_MIN_FRAME_LENGTH
    THEN [err |-> "IncompleteFrameError", msg_type |-> "none", data |-> <<>>]
    ELSE IF frame[Len(frame)] # _STOP_BYTE
    THEN [err |-> "InvalidFrameEndError", msg_type |-> "none", data |-> <<>>]
    ELSE IF frame[1] # _START_BYTE
    THEN [err |-> "InvalidFrameStartError", msg_type |-> "none", data |-> <<>>]
    ELSE IF MessageType_from_bytes(frame[2]) = "ValueError"
    THEN [err |-> "UnknownMessageTypeError", msg_type |-> "none", data |-> <<>>]
    ELSE LET msg_type == MessageType_from_bytes(frame[2])
             data == Slice(frame, _UART_HEADER_LENGTH, Len(frame) - _UART_FOOTER_LENGTH)
         IN  IF MessageType[msg_type].data_len # Len(data)
             THEN [err |-> "InvalidPayloadLengthError", msg_type |-> msg_type, data |-> data]
             ELSE [err |-> "none", msg_type |-> msg_type, data |-> data]

\* The structural part of _parse_frame: the exception raised, or the
\* resolved type and the interior slice.
_parse_frame_checks(frame) ==
    IF Len(frame) < _UART_MIN_FRAME_LENGTH
    THEN [err |-> "IncompleteFrameError", msg_type |-> "none", data |-> <<>>]
    ELSE IF frame[1] # _START_BYTE
    THEN [err |-> "InvalidFrameStartError", msg_type |-> "none", data |-> <<>>]
    ELSE IF frame[Len(frame)] # _STOP_BYTE
    THEN [err |-> "InvalidFrameEndError", msg_type |-> "none", data |-> <<>>]
    ELSE IF MessageType_from_bytes(frame[2]) = "ValueError"
    THEN [err |-> "UnknownMessageTypeError", msg_type |-> "none", data |-> <<>>]
    ELSE LET msg_type == MessageType_from_bytes(frame[2])
             data == Slice(frame, _UART_HEADER_LENGTH, Len(frame) - _UART_FOOTER_LENGTH)
         IN  IF MessageType[msg_type].data_len # Len(data)
             THEN [err |-> "InvalidPayloadLengthError", msg_type |-> msg_type, data |-> data]
             ELSE [err |-> "none", msg_type |-> msg_type, data |-> data]

\* _parse_frame: structural checks, then the dispatcher.
_parse_frame(frame) ==
    LET c == _parse_frame_checks(frame)
    IN  IF c.err # "none"
        THEN [err |-> c.err, calls |-> <<>>, msg_type |-> c.msg_type, data |-> c.data]
        ELSE LET d == _dispatch_callback(c.msg_type, c.data)
             IN  [err |-> d.err, calls |-> d.calls, msg_type |-> c.msg_type, data |-> c.data]

\* ------------------------------------------------------------------------
\* Stream parser.  A session is the record of the three attributes set by
\* UartInterface.__init__; a step returns the session after the byte, the
\* exception raised, the handler calls made and whether _parse_frame ran.
\* ------------------------------------------------------------------------
NewSession == [parser_state |-> "IDLE", rx_buff |-> <<>>, bytes_left |-> 0]

StepResult(sess, err, cbs, parsed) ==
    [sess |-> sess, err |-> err, calls |-> cbs, parsed |-> parsed]

\* _store_rx_byte counting two for every byte stored.
_store_rx_byte_count_two(s, byte) ==
    [s EXCEPT !.rx_buff = Append(@, byte), !.bytes_left = @ - 2]

_store_rx_byte(s, byte) ==
    [s EXCEPT !.rx_buff = Append(@, byte), !.bytes_left = @ - 1]

\* The IDLE branch leaving READING_HEADER to store the first byte: START
\* itself is not put in the buffer.
IdleBranch_skip_start(s, byte) ==
    IF byte = _START_BYTE
    THEN [s EXCEPT !.bytes_left = _UART_HEADER_LENGTH - 1,
                   !.parser_state = "READING_HEADER"]
    ELSE s

\* The IDLE branch buffering the bytes that are not START.
IdleBranch_keep_noise(s, byte) ==
    IF byte = _START_BYTE
    THEN _store_rx_byte([s EXCEPT !.bytes_left = _UART_HEADER_LENGTH,
                                  !.parser_state = "READING_HEADER"], byte)
    ELSE [s EXCEPT !.rx_buff = Append(@, byte)]

\* IDLE branch of _process_rx_byte.
IdleBranch(s, byte) ==
    IF byte = _START_BYTE
    THEN _store_rx_byte([s EXCEPT !.bytes_left = _UART_HEADER_LENGTH,
                                  !.parser_state = "READING_HEADER"], byte)
    ELSE s

\* The READING_HEADER branch expecting one payload byte whatever the type.
HeaderBranch_one_byte(s, byte) ==
    IF s.bytes_left = 0
    THEN [s EXCEPT !.bytes_left = 1, !.parser_state = "READING_DATA"]
    ELSE s

\* READING_HEADER branch: the payload length of the type byte, 0 when the
\* lookup raises ValueError.
HeaderBranch(s, byte) ==
    IF s.bytes_left = 0
    THEN [s EXCEPT !.bytes_left =
                       IF MessageType_from_bytes(byte) = "ValueError"
                       THEN 0
                       ELSE MessageType[MessageType_from_bytes(byte)].data_len,
                   !.parser_state = "READING_DATA"]
    ELSE s

\* READING_DATA branch.
DataBranch(s) ==
    IF s.bytes_left = 0
    THEN [s EXCEPT !.bytes_left = _UART_FOOTER_LENGTH,
                   !.parser_state = "READING_FOOTER"]
    ELSE s

\* The READING_FOOTER branch going back to IDLE without _parse_frame.
FooterBranch_no_parse(s) ==
    IF s.bytes_left = 0
    THEN StepResult([s EXCEPT !.parser_state = "IDLE"], "none", <<>>, TRUE)
    ELSE StepResult(s, "none", <<>>, FALSE)

\* READING_FOOTER branch: back to IDLE, then _parse_frame on the buffer.
FooterBranch(s) ==
    IF s.bytes_left = 0
    THEN LET p == _parse_frame(s.rx_buff)
         IN  StepResult([s EXCEPT !.parser_state = "IDLE"], p.err, p.calls, TRUE)
    ELSE StepResult(s, "none", <<>>, FALSE)

\* _process_rx_byte storing the byte whatever _bytes_left is.
_process_rx_byte_store_always(s, byte) ==
    LET s1 == _store_rx_byte(s, byte)
    IN  IF s1.parser_state = "IDLE"
        THEN StepResult(IdleBranch(s1, byte), "none", <<>>, FALSE)
        ELSE IF s1.parser_state = "READING_HEADER"
        THEN StepResult(HeaderBranch(s1, byte), "none", <<>>, FALSE)
        ELSE IF s1.parser_state = "READING_DATA"
        THEN StepResult(DataBranch(s1), "none", <<>>, FALSE)
        ELSE FooterBranch(s1)

_process_rx_byte(s, byte) ==
    LET s1 == IF s.bytes_left > 0 THEN _store_rx_byte(s, byte) ELSE s
    IN  IF s1.parser_state = "IDLE"
        THEN StepResult(IdleBranch(s1, byte), "none", <<>>, FALSE)
        ELSE IF s1.parser_state = "READING_HEADER"
        THEN StepResult(HeaderBranch(s1, byte), "none", <<>>, FALSE)
        ELSE IF s1.parser_state = "READING_DATA"
        THEN StepResult(DataBranch(s1), "none", <<>>, FALSE)
        ELSE FooterBranch(s1)

\* io_bytes_received: the bytes of rx_bytes in order; the first exception
\* ends the loop and the bytes after it are never processed.
RECURSIVE io_bytes_received(_, _)
io_bytes_received(s, rx_bytes) ==
    IF rx_bytes = <<>>
    THEN StepResult(s, "none", <<>>, FALSE)
    ELSE LET r == _process_rx_byte(s, Head(rx_bytes))
         IN  IF r.err # "none" \/ Tail(rx_bytes) = <<>>
             THEN r
             ELSE LET rest == io_bytes_received(r.sess, Tail(rx_bytes))
                  IN  StepResult(rest.sess, rest.err, r.calls \o rest.calls, rest.parsed)

\* ------------------------------------------------------------------------
\* Outbound command methods.  ok is the value io_send_uart returns; a
\* result is the exception raised and the frames handed to io_send_uart.
\* ------------------------------------------------------------------------
\* str.isalnum() on the code points the model uses: ASCII digits and
\* letters, and the non-ASCII letter e-acute (233).
IsAlnumChar(c) == c \in (48..57) \cup (65..90) \cup (97..122) \cup {233}

isalnum(name) == name # <<>> /\ \A i \in 1..Len(name) : IsAlnumChar(name[i])

\* Padding on the left, as str.rjust does.
ljust_as_rjust(s, width, fillchar) ==
    IF Len(s) >= width THEN s ELSE Repeat(fillchar, width - Len(s)) \o s

\* str.ljust(width, fillchar)
ljust(s, width, fillchar) ==
    IF Len(s) >= width THEN s ELSE s \o Repeat(fillchar, width - Len(s))

\* str.encode("ascii")
encode_ascii(s) ==
    IF \E i \in 1..Len(s) : s[i] > 127
    THEN [err |-> "UnicodeEncodeError", bytes |-> <<>>]
    ELSE [err |-> "none", bytes |-> s]

\* bytes([1 if flag else 0])
BoolByte(flag) == IF flag THEN 1 ELSE 0

\* The range test with MAX_TOOL_ID included.
ToolIdInRange_inclusive(tool) == 0 < tool /\ tool <= MAX_TOOL_ID

\* The range test of set_tool_id.
ToolIdInRange(tool) == 0 < tool /\ tool < MAX_TOOL_ID

\* Sending the frame a second time when io_send_uart returned False.
SendFrame_retry(f, ok) ==
    IF f.err # "none"
    THEN [err |-> f.err, sent |-> <<>>]
    ELSE IF ok
    THEN [err |-> "none", sent |-> <<f.frame>>]
    ELSE [err |-> "UartError", sent |-> <<f.frame, f.frame>>]

\* "if not self.io_send_uart(frame): raise UartError()" after _format_uart.
SendFrame(f, ok) ==
    IF f.err # "none"
    THEN [err |-> f.err, sent |-> <<>>]
    ELSE [err |-> IF ok THEN "none" ELSE "UartError", sent |-> <<f.frame>>]

\* set_tool_id handing the frame to io_send_uart before testing the range.
set_tool_id_send_first(tool, ok) ==
    LET r == SendFrame(_format_uart("TOOL_ID", <<tool % 256>>), ok)
    IN  IF ~ToolIdInRange(tool)
        THEN [err |-> "InvalidDataError", sent |-> r.sent]
        ELSE r

set_tool_id(tool, ok) ==
    IF ~ToolIdInRange(tool)
    THEN [err |-> "InvalidDataError", sent |-> <<>>]
    ELSE SendFrame(_format_uart("TOOL_ID", <<tool>>), ok)

set_tool_name(name, ok) ==
    IF ~isalnum(name)
    THEN [err |-> "InvalidDataError", sent |-> <<>>]
    ELSE LET data == encode_ascii(ljust(name, TOOL_NAME_WIDTH, SPACE))
         IN  IF data.err # "none"
             THEN [err |-> data.err, sent |-> <<>>]
             ELSE SendFrame(_format_uart("TOOL_NAME", data.bytes), ok)

is_rfid_valid(valid, ok) ==
    SendFrame(_format_uart("RFID_VALID", <<BoolByte(valid)>>), ok)

follow_mode_enable(enabled, ok) ==
    SendFrame(_format_uart("FOLLOW_MODE_ENABLE", <<BoolByte(enabled)>>), ok)

\* ------------------------------------------------------------------------
\* Inputs
\* ------------------------------------------------------------------------
\* Well-formed frames from the STM32.
BatteryFrame == <<138, 129, 5, 81>>
BatteryStartFrame == <<138, 129, 138, 81>>
ArmReadyFrame == <<138, 130, 2, 81>>
RfidFrame == <<138, 132, 222, 173, 190, 239, 81>>
\* A well-formed frame of a type the Raspberry sends.
ToolIdFrame == <<138, 1, 5, 81>>
\* Frame attempts _parse_frame rejects.
BadStopFrame == <<138, 129, 5, 255>>
UnknownTypeFrame == <<138, 153, 81>>
BadArmFrame == <<138, 130, 3, 81>>

NoiseBytes == {255, 81, 129}

NoiseSegments == {<<b>> : b \in NoiseBytes}

PeripheralFrames == {BatteryFrame, BatteryStartFrame, ArmReadyFrame, RfidFrame}

FrameAttempts ==
    PeripheralFrames \cup {ToolIdFrame, BadStopFrame, UnknownTypeFrame, BadArmFrame}

Segments == NoiseSegments \cup FrameAttempts

\* The input streams: up to MaxSegments segments one after the other.
SegSeqs == UNION {[1..n -> Segments] : n \in 0..MaxSegments}

\* Arguments of set_tool_id.
ToolArgs == (0 - ToolArgSpan)..(MAX_TOOL_ID + ToolArgSpan)

\* Arguments of set_tool_name: "marteau", and names of every length up to
\* MaxNameLen made of 'a' with one character replaced at either end by
\* 'Z', '7', ' ', '-' or e-acute.
Marteau == <<109, 97, 114, 116, 101, 97, 117>>

NameChars == {97, 90, 55, 32, 45, 233}

Names ==
    {Marteau} \cup
    {[i \in 1..n |-> IF (first /\ i = 1) \/ (~first /\ i = n) THEN c ELSE 97] :
        n \in 0..MaxNameLen, first \in BOOLEAN, c \in NameChars}

\* Payloads handed to _format_uart: every length up to MaxDataLen of one
\* repeated byte and of the bytes 1, 2, 3, ..., and the RFID DE AD BE EF.
DataBytes == {0, 1, 5, 81, 138}

Payloads ==
    {Repeat(b, n) : b \in DataBytes, n \in 0..MaxDataLen}
    \cup {[i \in 1..n |-> i] : n \in 0..MaxDataLen}
    \cup {<<222, 173, 190, 239>>}

\* Byte strings handed to _parse_frame: every string up to MaxFrameLen over
\* the sentinels, two type codes, an unknown code and a payload byte, and
\* the frame attempts above with their last byte dropped or extended, and
\* well-formed frames of every type.
\* Payload bytes of the ARM_STATUS frames tried: 0 to 9 and 255.
ArmBytes == (0..9) \cup {255}

CodecBytes == {138, 81, 129, 130, 153, 2}

ParseInputs ==
    UNION {[1..n -> CodecBytes] : n \in 0..MaxFrameLen}
    \cup FrameAttempts
    \cup {SubSeq(f, 1, Len(f) - 1) : f \in FrameAttempts}
    \cup {f \o <<81>> : f \in FrameAttempts}
    \cup {_format_uart("TOOL_NAME", Repeat(97, 16)).frame}
    \cup {<<138, 130, b, 81>> : b \in ArmBytes}
    \cup {<<138, 129, b, 81>> : b \in {0, 100, 255}}
    \cup {<<138, 132, 0, 10, 240, 155, 81>>, <<138, 132, 255, 255, 255, 255, 81>>}
    \cup {<<138, c, b, 81>> : c \in {1, 4, 8}, b \in {0, 1, 6}}

\* ------------------------------------------------------------------------
\* UartDriverRaspberry: the queue messages, the callbacks and the command
\* dispatch of the run loop.  A message is a dict with one key; the key is
\* a MessageField member (put by the callbacks) or a str (a JSON key put
\* by the TCP server), and a member is never equal to a str.
\* ------------------------------------------------------------------------
MessageField ==
    [TOOL_NUMBER |-> "tool_number", TOOL_NAME |-> "tool_name",
     USER_FOLLOW_ENABLED |-> "user_follow_enabled",
     JOYSTICK_DIRECTION |-> "joystick_direction", SPEED |-> "speed",
     IS_RFID_VALID |-> "is_rfid_valid", ARM_MOVEMENT |-> "arm_movement",
     BATTERY_LEVEL |-> "battery_level"]

Member(name) == [kind |-> "MessageField", name |-> name]

StrKey(text) == [kind |-> "str", name |-> text]

Message(key, value) == [key |-> key, value |-> value]

\* configs.settings.RFID_UID, here the identifier "deadbeef".
RFID_UID == <<100, 101, 97, 100, 98, 101, 101, 102>>

\* cb_rfid_received, cb_battery_level and cb_arm_state: what one handler
\* call puts on each queue.
CallbackPutsToStm32(c) ==
    IF c.cb = "cb_rfid_received"
    THEN <<Message(Member("IS_RFID_VALID"), c.arg = RFID_UID)>>
    ELSE <<>>

\* The callbacks telling the TCP side about the battery only.
CallbackPutsToPc_battery_only(c) ==
    IF c.cb = "cb_battery_level"
    THEN <<Message(Member("BATTERY_LEVEL"), [num |-> c.arg[1] * 100, den |-> 255])>>
    ELSE <<>>

CallbackPutsToPc(c) ==
    IF c.cb = "cb_rfid_received"
    THEN <<Message(Member("IS_RFID_VALID"), c.arg = RFID_UID)>>
    ELSE IF c.cb = "cb_battery_level"
    THEN <<Message(Member("BATTERY_LEVEL"), [num |-> c.arg[1] * 100, den |-> 255])>>
    ELSE <<>>

RECURSIVE PutsToStm32(_)
PutsToStm32(cbs) ==
    IF cbs = <<>> THEN <<>>
    ELSE CallbackPutsToStm32(Head(cbs)) \o PutsToStm32(Tail(cbs))

RECURSIVE PutsToPc(_)
PutsToPc(cbs) ==
    IF cbs = <<>> THEN <<>>
    ELSE CallbackPutsToPc(Head(cbs)) \o PutsToPc(Tail(cbs))

\* The result of _send_next_message_from_queue: the exception raised, the
\* frames sent, the command method called and whether the message was
\* logged as unknown.
SendResult(r, method, logged) ==
    [err |-> r.err, sent |-> r.sent, method |-> method, logged |-> logged]

NothingSent == [err |-> "none", sent |-> <<>>]

\* _send_next_message_from_queue raising on a key it does not know.
_send_next_message_from_queue_strict(message, ok) ==
    LET message_type == message.key
        message_value == message.value
    IN  IF message_type = Member("TOOL_NUMBER")
        THEN SendResult(set_tool_id(message_value, ok), "set_tool_id", FALSE)
        ELSE IF message_type = Member("TOOL_NAME")
        THEN SendResult(set_tool_name(message_value, ok), "set_tool_name", FALSE)
        ELSE IF message_type = Member("USER_FOLLOW_ENABLED")
        THEN SendResult(follow_mode_enable(message_value, ok), "follow_mode_enable", FALSE)
        ELSE IF message_type = Member("JOYSTICK_DIRECTION")
        THEN SendResult(NothingSent, "none", FALSE)
        ELSE IF message_type = Member("SPEED")
        THEN SendResult(NothingSent, "none", FALSE)
        ELSE IF message_type = Member("IS_RFID_VALID")
        THEN SendResult(is_rfid_valid(message_value, ok), "is_rfid_valid", FALSE)
        ELSE IF message_type = Member("ARM_MOVEMENT")
        THEN SendResult(NothingSent, "none", FALSE)
        ELSE SendResult([err |-> "ValueError", sent |-> <<>>], "none", TRUE)

_send_next_message_from_queue(message, ok) ==
    LET message_type == message.key
        message_value == message.value
    IN  IF message_type = Member("TOOL_NUMBER")
        THEN SendResult(set_tool_id(message_value, ok), "set_tool_id", FALSE)
        ELSE IF message_type = Member("TOOL_NAME")
        THEN SendResult(set_tool_name(message_value, ok), "set_tool_name", FALSE)
        ELSE IF message_type = Member("USER_FOLLOW_ENABLED")
        THEN SendResult(follow_mode_enable(message_value, ok), "follow_mode_enable", FALSE)
        ELSE IF message_type = Member("JOYSTICK_DIRECTION")
        THEN SendResult(NothingSent, "none", FALSE)
        ELSE IF message_type = Member("SPEED")
        THEN SendResult(NothingSent, "none", FALSE)
        ELSE IF message_type = Member("IS_RFID_VALID")
        THEN SendResult(is_rfid_valid(message_value, ok), "is_rfid_valid", FALSE)
        ELSE IF message_type = Member("ARM_MOVEMENT")
        THEN SendResult(NothingSent, "none", FALSE)
        ELSE SendResult(NothingSent, "none", TRUE)

\* What one iteration of TcpServer._handle_client takes from to_pc_queue
\* (send_data_to_client) and whether json.dumps accepts it: a dict whose
\* key is a MessageField member is refused with TypeError.
NoTcpOut == [taken |-> <<>>, sent |-> FALSE]

TcpResponse(queue) ==
    IF queue = <<>> THEN NoTcpOut
    ELSE [taken |-> <<Head(queue)>>, sent |-> Head(queue).key.kind = "str"]

\* The JSON objects the TCP client sends, as (key, value) messages; the
\* last one has a key that names no field.
ClientData ==
    <<Message(StrKey("tool_number"), 5),
      Message(StrKey("tool_name"), Marteau),
      Message(StrKey("user_follow_enabled"), TRUE),
      Message(StrKey("is_rfid_valid"), TRUE),
      Message(StrKey("hello"), 1)>>

\* Well-formed RFID frame with an identifier other than RFID_UID.
OtherRfidFrame == <<138, 132, 0, 10, 240, 155, 81>>

\* The input streams of the run loop with its queues.
RunSegments == {<<255>>, RfidFrame, OtherRfidFrame, BatteryFrame}

RunStreams == UNION {[1..n -> RunSegments] : n \in 0..MaxRunSegments}

\* ------------------------------------------------------------------------
\* Two UartInterface objects, one per serial link.  An object holds its
\* parser state, its counter and a reference to the bytearray that
\* __init__ creates for it; heap maps a reference to the bytes stored.
\* calls, raised and fed record what the object's handlers were called
\* with, what its last io_bytes_received raised, and the bytes given to it.
\* ------------------------------------------------------------------------
LinkIds == {1, 2}

\* __init__ with one bytearray shared by every object.
UartInterface_init_shared(id) ==
    [parser_state |-> "IDLE", bytes_left |-> 0, rx_buff_ref |-> 1,
     calls |-> <<>>, raised |-> "none", fed |-> <<>>]

UartInterface_init(id) ==
    [parser_state |-> "IDLE", bytes_left |-> 0, rx_buff_ref |-> id,
     calls |-> <<>>, raised |-> "none", fed |-> <<>>]

NewLinks ==
    [obj |-> [id \in LinkIds |-> UartInterface_init(id)],
     heap |-> [ref \in LinkIds |-> <<>>]]

\* The parser session an object presents: its fields and the bytes behind
\* its buffer reference.
LinkSession(ls, id) ==
    [parser_state |-> ls.obj[id].parser_state,
     rx_buff |-> ls.heap[ls.obj[id].rx_buff_ref],
     bytes_left |-> ls.obj[id].bytes_left]

\* io_bytes_received(bytes([byte])) on object id.
FeedLink(ls, id, byte) ==
    LET r == io_bytes_received(LinkSession(ls, id), <<byte>>)
        o == ls.obj[id]
    IN  [obj |-> [ls.obj EXCEPT ![id] =
                    [parser_state |-> r.sess.parser_state,
                     bytes_left |-> r.sess.bytes_left,
                     rx_buff_ref |-> o.rx_buff_ref,
                     calls |-> o.calls \o r.calls,
                     raised |-> r.err,
                     fed |-> Append(o.fed, byte)]],
         heap |-> [ls.heap EXCEPT ![o.rx_buff_ref] = r.sess.rx_buff]]

\* The bytes fed to either link.
LinkBytes == {138, 129, 81}

\* ------------------------------------------------------------------------
\* main: monitor_connections polling the DHCP lease file and calling
\* start_robot, and the two processes start_robot starts.  An object is
\* named by its type and a name; lease and last_device_mac are a MAC
\* address or "none" (an empty lease file, None).
\* ------------------------------------------------------------------------
Object(type, name) == [type |-> type, name |-> name]

MainToStm32Queue == Object("Queue", "main.to_stm32_queue")

MainToPcQueue == Object("Queue", "main.to_pc_queue")

\* TcpServerRaspberry.__init__(host, port, to_stm32_queue, to_pc_queue)
\* called with positional arguments: each parameter takes the argument at
\* its position, or its default.
TcpServerRaspberry_init(args) ==
    [host |-> IF Len(args) >= 1 THEN args[1] ELSE Object("str", "TCP_SERVER_HOST"),
     port |-> IF Len(args) >= 2 THEN args[2] ELSE Object("int", "TCP_SERVER_PORT"),
     to_stm32_queue |-> IF Len(args) >= 3 THEN args[3]
                        ELSE Object("Queue", "default to_stm32_queue"),
     to_pc_queue |-> IF Len(args) >= 4 THEN args[4]
                     ELSE Object("Queue", "default to_pc_queue")]

\* start_server: bind((host, port)) raises unless host is a str and port
\* an int; the exception is logged and the server does not listen.
start_server(server) == server.host.type = "str" /\ server.port.type = "int"

\* UartDriverRaspberry.__init__(to_stm32_queue, to_pc_queue, ...).
UartDriverRaspberry_init(args) ==
    [to_stm32_queue |-> args[1], to_pc_queue |-> args[2]]

\* start_tcp_server_process and start_uart_manager_process, as far as the
\* objects they build.
start_tcp_server_process(to_stm32, to_pc) ==
    LET server == TcpServerRaspberry_init(<<to_stm32, to_pc>>)
    IN  [state |-> "sleeping", server |-> server, listening |-> start_server(server)]

start_uart_manager_process(to_stm32, to_pc) ==
    [state |-> "running", driver |-> UartDriverRaspberry_init(<<to_stm32, to_pc>>)]

Started == [state |-> "started"]

\* start_robot: one more TCP process and one more UART process.
start_robot(r) ==
    [r EXCEPT !.tcp = Append(@, Started), !.uart = Append(@, Started)]

Macs == {"aa:aa", "bb:bb"}

NewRobot ==
    [lease |-> "none", last_device_mac |-> "none", hotspot |-> TRUE,
     tcp |-> <<>>, uart |-> <<>>]

\* One iteration of the loop of monitor_connections.
monitor_connections(r) ==
    IF r.lease # "none"
    THEN IF r.lease # r.last_device_mac
         THEN [start_robot(r) EXCEPT !.last_device_mac = r.lease]
         ELSE r
    ELSE IF r.last_device_mac # "none"
         THEN [r EXCEPT !.hotspot = FALSE, !.last_device_mac = "none"]
         ELSE r

\* ------------------------------------------------------------------------
\* State
\* ------------------------------------------------------------------------
VARIABLES
    parser_state,   \* UartInterface._parser_state
    rx_buff,        \* UartInterface._rx_buff
    bytes_left,     \* UartInterface._bytes_left
    calls,          \* handler calls (cb_*) made since construction
    raised,         \* exception the last operation raised, "none" if it returned
    running,        \* the run() loop of the owning process has not been left
    segments,       \* the input stream as chosen, segment by segment
    wire,           \* bytes of the stream not yet read from the serial port
    attempt_done,   \* the last byte processed made _process_rx_byte call _parse_frame
    last_op,        \* the last operation: its name, argument and io_send_uart result
    tx_frames,      \* frames the last operation handed to io_send_uart
    returned,       \* frame the last _format_uart call returned
    frame_in,       \* byte string to hand to _parse_frame
    to_stm32_queue, \* main.to_stm32_queue: messages for the UART process
    to_pc_queue,    \* main.to_pc_queue: messages for the TCP process
    tcp_out,        \* what the last TCP iteration took for its client
    links,          \* two UartInterface objects and the bytearrays they hold
    robot           \* main: the lease file, the monitor and the processes started

vars == <<parser_state, rx_buff, bytes_left, calls, raised, running, segments,
          wire, attempt_done, last_op, tx_frames, returned, frame_in,
          to_stm32_queue, to_pc_queue, tcp_out, links, robot>>

Session == [parser_state |-> parser_state, rx_buff |-> rx_buff, bytes_left |-> bytes_left]

Op(name, arg, ok) == [op |-> name, arg |-> arg, ok |-> ok]

\* The state after UartInterface.__init__, before any operation.
Fresh ==
    /\ parser_state = NewSession.parser_state
    /\ rx_buff = NewSession.rx_buff
    /\ bytes_left = NewSession.bytes_left
    /\ calls = <<>>
    /\ raised = "none"
    /\ running = TRUE
    /\ attempt_done = FALSE
    /\ last_op = Op("none", <<>>, TRUE)
    /\ tx_frames = <<>>
    /\ returned = <<>>
    /\ to_stm32_queue = <<>>
    /\ to_pc_queue = <<>>
    /\ tcp_out = NoTcpOut
    /\ links = NewLinks
    /\ robot = NewRobot

\* ------------------------------------------------------------------------
\* The receive side of UartDriverRaspberry.run: the bytes waiting on the
\* serial port are read and handed to io_bytes_received; an exception
\* leaves the loop.
\* ------------------------------------------------------------------------
Init ==
    /\ Fresh
    /\ segments \in SegSeqs
    /\ wire = Concat(segments)
    /\ frame_in = <<>>

RunReceive ==
    /\ running
    /\ wire # <<>>
    /\ \E k \in 1..Min(MaxChunk, Len(wire)) :
         LET rx_data == SubSeq(wire, 1, k)
             r == io_bytes_received(Session, rx_data)
         IN  /\ parser_state' = r.sess.parser_state
             /\ rx_buff' = r.sess.rx_buff
             /\ bytes_left' = r.sess.bytes_left
             /\ calls' = calls \o r.calls
             /\ raised' = r.err
             /\ running' = (r.err = "none")
             /\ attempt_done' = r.parsed
             /\ wire' = SubSeq(wire, k + 1, Len(wire))
             /\ last_op' = Op("io_bytes_received", rx_data, TRUE)
             /\ to_stm32_queue' = to_stm32_queue \o PutsToStm32(r.calls)
             /\ to_pc_queue' = to_pc_queue \o PutsToPc(r.calls)
    /\ UNCHANGED <<segments, tx_frames, returned, frame_in, tcp_out, links, robot>>

Next == RunReceive

Spec == Init /\ [][Next]_vars

\* ------------------------------------------------------------------------
\* The run loop with its queues: the receive side above, the send side
\* (one message taken from to_stm32_queue and handed to
\* _send_next_message_from_queue; an exception leaves the loop), and the
\* TCP server process putting client data on to_stm32_queue.  The two
\* halves of a loop iteration are separate steps, since either is skipped
\* when nothing is waiting.
\* ------------------------------------------------------------------------
InitRun ==
    /\ Fresh
    /\ segments \in RunStreams
    /\ wire = Concat(segments)
    /\ frame_in = <<>>

RunSend ==
    /\ running
    /\ to_stm32_queue # <<>>
    /\ \E ok \in BOOLEAN :
         LET message == Head(to_stm32_queue)
             r == _send_next_message_from_queue(message, ok)
         IN  /\ to_stm32_queue' = Tail(to_stm32_queue)
             /\ raised' = r.err
             /\ running' = (r.err = "none")
             /\ tx_frames' = r.sent
             /\ last_op' = Op("_send_next_message_from_queue",
                              [message |-> message, method |-> r.method,
                               logged |-> r.logged], ok)
    /\ UNCHANGED <<parser_state, rx_buff, bytes_left, calls, segments, wire,
                   attempt_done, returned, frame_in, to_pc_queue, tcp_out, links, robot>>

\* One iteration of TcpServer._handle_client on a JSON object with one
\* key: handle_client_data, then send_data_to_client.  The server is the
\* one TcpServerRaspberry builds when it is given the two queues as
\* to_stm32_queue and to_pc_queue.
HandleClient ==
    /\ Len(to_stm32_queue) < MaxQueue
    /\ \E i \in 1..Len(ClientData) :
         to_stm32_queue' = Append(to_stm32_queue, ClientData[i])
    /\ tcp_out' = TcpResponse(to_pc_queue)
    /\ to_pc_queue' = IF to_pc_queue = <<>> THEN <<>> ELSE Tail(to_pc_queue)
    /\ UNCHANGED <<parser_state, rx_buff, bytes_left, calls, raised, running,
                   segments, wire, attempt_done, last_op, tx_frames, returned,
                   frame_in, links, robot>>

NextRun ==
    \/ RunReceive
    \/ RunSend
    \/ HandleClient

SpecRun == InitRun /\ [][NextRun]_vars

\* ------------------------------------------------------------------------
\* Two links fed one byte at a time, in any interleaving.
\* ------------------------------------------------------------------------
InitTwo ==
    /\ Fresh
    /\ segments = <<>>
    /\ wire = <<>>
    /\ frame_in = <<>>

FeedTwo ==
    /\ \E id \in LinkIds, byte \in LinkBytes :
         /\ Len(links.obj[id].fed) < MaxLinkBytes
         /\ links' = FeedLink(links, id, byte)
         /\ last_op' = Op("io_bytes_received", <<id, byte>>, TRUE)
    /\ UNCHANGED <<parser_state, rx_buff, bytes_left, calls, raised, running,
                   segments, wire, attempt_done, tx_frames, returned, frame_in,
                   to_stm32_queue, to_pc_queue, tcp_out, robot>>

NextTwo == FeedTwo

SpecTwo == InitTwo /\ [][NextTwo]_vars

\* ------------------------------------------------------------------------
\* main: the lease file changing under the monitor, the monitor polling,
\* and the started processes running.  A process that was started is
\* alive until it exits; the TCP process sleeps for ever after
\* start_server, the UART process exits when run() raises.
\* ------------------------------------------------------------------------
InitMain ==
    /\ Fresh
    /\ segments = <<>>
    /\ wire = <<>>
    /\ frame_in = <<>>

Others ==
    <<parser_state, rx_buff, bytes_left, calls, raised, running, segments,
      wire, attempt_done, last_op, tx_frames, returned, frame_in,
      to_stm32_queue, to_pc_queue, tcp_out, links>>

\* dnsmasq rewrites the lease file: the first line names another device
\* while the hotspot is up, or no line is left.
LeaseChange ==
    /\ \E mac \in Macs \cup {"none"} :
         /\ mac # robot.lease
         /\ mac # "none" => robot.hotspot
         /\ robot' = [robot EXCEPT !.lease = mac]
    /\ UNCHANGED Others

MonitorPoll ==
    /\ (robot.lease # "none" /\ robot.lease # robot.last_device_mac)
       => Len(robot.tcp) < MaxStarts
    /\ robot' = monitor_connections(robot)
    /\ robot' # robot
    /\ UNCHANGED Others

TcpProcessRun ==
    /\ \E i \in 1..Len(robot.tcp) :
         /\ robot.tcp[i].state = "started"
         /\ robot' = [robot EXCEPT !.tcp[i] =
                        start_tcp_server_process(MainToStm32Queue, MainToPcQueue)]
    /\ UNCHANGED Others

UartProcessRun ==
    /\ \E i \in 1..Len(robot.uart) :
         /\ robot.uart[i].state = "started"
         /\ robot' = [robot EXCEPT !.uart[i] =
                        start_uart_manager_process(MainToStm32Queue, MainToPcQueue)]
    /\ UNCHANGED Others

\* run() raised: the finally clause closes the port and the process ends.
UartProcessExit ==
    /\ \E i \in 1..Len(robot.uart) :
         /\ robot.uart[i].state = "running"
         /\ robot' = [robot EXCEPT !.uart[i] = [state |-> "exited"]]
    /\ UNCHANGED Others

NextMain ==
    \/ LeaseChange
    \/ MonitorPoll
    \/ TcpProcessRun
    \/ UartProcessRun
    \/ UartProcessExit

SpecMain == InitMain /\ [][NextMain]_vars

\* ------------------------------------------------------------------------
\* The receive side fed START, the code of a message type, as many bytes
\* as the registry length of any type (bytes equal to START and STOP
\* included) and one more byte, or the attempt 8A 99 51 51 of an unknown
\* type, after nothing, after noise or after a well-formed frame.
\* ------------------------------------------------------------------------
FeedPayloads(n) ==
    {Repeat(b, n) : b \in {138, 81, 97}}
    \cup {[i \in 1..n |-> IF i % 2 = 1 THEN 138 ELSE 81],
          [i \in 1..n |-> IF i % 2 = 1 THEN 81 ELSE 138]}

FeedFrames ==
    {<<138, MessageType[t].code>> \o payload \o <<footer>> :
        t \in MessageTypes, payload \in UNION {FeedPayloads(MessageType[u].data_len) : u \in MessageTypes},
        footer \in {81, 138}}
    \cup {UnknownTypeFrame \o <<81>>}

FeedPrefixes == {<<>>, <<255, 81>>, BatteryFrame}

InitFeed ==
    /\ Fresh
    /\ segments \in {<<prefix, frame>> : prefix \in FeedPrefixes, frame \in FeedFrames}
    /\ wire = Concat(segments)
    /\ frame_in = <<>>

NextFeed == RunReceive

SpecFeed == InitFeed /\ [][NextFeed]_vars

\* ------------------------------------------------------------------------
\* The command methods and _format_uart called on a new UartInterface with
\* every argument of the input sets.
\* ------------------------------------------------------------------------
InitCmd ==
    /\ Fresh
    /\ segments = <<>>
    /\ wire = <<>>
    /\ frame_in = <<>>

SetToolId ==
    \E tool \in ToolArgs, ok \in BOOLEAN :
        LET r == set_tool_id(tool, ok)
        IN  /\ raised' = r.err
            /\ tx_frames' = r.sent
            /\ returned' = <<>>
            /\ last_op' = Op("set_tool_id", tool, ok)
            /\ UNCHANGED <<parser_state, rx_buff, bytes_left, calls, running,
                           segments, wire, attempt_done, frame_in,
                           to_stm32_queue, to_pc_queue, tcp_out, links, robot>>

SetToolName ==
    \E name \in Names, ok \in BOOLEAN :
        LET r == set_tool_name(name, ok)
        IN  /\ raised' = r.err
            /\ tx_frames' = r.sent
            /\ returned' = <<>>
            /\ last_op' = Op("set_tool_name", name, ok)
            /\ UNCHANGED <<parser_state, rx_buff, bytes_left, calls, running,
                           segments, wire, attempt_done, frame_in,
                           to_stm32_queue, to_pc_queue, tcp_out, links, robot>>

IsRfidValid ==
    \E valid \in BOOLEAN, ok \in BOOLEAN :
        LET r == is_rfid_valid(valid, ok)
        IN  /\ raised' = r.err
            /\ tx_frames' = r.sent
            /\ returned' = <<>>
            /\ last_op' = Op("is_rfid_valid", valid, ok)
            /\ UNCHANGED <<parser_state, rx_buff, bytes_left, calls, running,
                           segments, wire, attempt_done, frame_in,
                           to_stm32_queue, to_pc_queue, tcp_out, links, robot>>

FollowModeEnable ==
    \E enabled \in BOOLEAN, ok \in BOOLEAN :
        LET r == follow_mode_enable(enabled, ok)
        IN  /\ raised' = r.err
            /\ tx_frames' = r.sent
            /\ returned' = <<>>
            /\ last_op' = Op("follow_mode_enable", enabled, ok)
            /\ UNCHANGED <<parser_state, rx_buff, bytes_left, calls, running,
                           segments, wire, attempt_done, frame_in,
                           to_stm32_queue, to_pc_queue, tcp_out, links, robot>>

FormatUart ==
    \E msg_type \in MessageTypes, data \in Payloads :
        LET r == _format_uart(msg_type, data)
        IN  /\ raised' = r.err
            /\ returned' = r.frame
            /\ tx_frames' = <<>>
            /\ last_op' = Op("_format_uart", [msg_type |-> msg_type, data |-> data], TRUE)
            /\ UNCHANGED <<parser_state, rx_buff, bytes_left, calls, running,
                           segments, wire, attempt_done, frame_in,
                           to_stm32_queue, to_pc_queue, tcp_out, links, robot>>

NextCmd ==
    \/ SetToolId
    \/ SetToolName
    \/ IsRfidValid
    \/ FollowModeEnable
    \/ FormatUart

SpecCmd == InitCmd /\ [][NextCmd]_vars

\* ------------------------------------------------------------------------
\* An owner of the UartInterface calling the command methods between the
\* io_bytes_received calls of one stream, and going on after a command
\* raised.
\* ------------------------------------------------------------------------
InitMix ==
    /\ Fresh
    /\ segments \in {<<BatteryFrame>>, <<RfidFrame>>, <<BadStopFrame>>}
    /\ wire = Concat(segments)
    /\ frame_in = <<>>

\* The command calls the owner makes: in and out of each method's domain.
MixCalls ==
    <<[op |-> "set_tool_id", arg |-> 5],
      [op |-> "set_tool_id", arg |-> 0],
      [op |-> "set_tool_name", arg |-> Marteau],
      [op |-> "set_tool_name", arg |-> <<97, 45>>],
      [op |-> "is_rfid_valid", arg |-> TRUE],
      [op |-> "follow_mode_enable", arg |-> FALSE]>>

CommandResult(c, ok) ==
    IF c.op = "set_tool_id" THEN set_tool_id(c.arg, ok)
    ELSE IF c.op = "set_tool_name" THEN set_tool_name(c.arg, ok)
    ELSE IF c.op = "is_rfid_valid" THEN is_rfid_valid(c.arg, ok)
    ELSE follow_mode_enable(c.arg, ok)

\* A command call emptying the receive buffer as well.
MixCommand_clears_buffer ==
    \E i \in 1..Len(MixCalls), ok \in BOOLEAN :
        LET r == CommandResult(MixCalls[i], ok)
        IN  /\ raised' = r.err
            /\ tx_frames' = r.sent
            /\ returned' = <<>>
            /\ last_op' = Op(MixCalls[i].op, MixCalls[i].arg, ok)
            /\ rx_buff' = <<>>
            /\ UNCHANGED <<parser_state, bytes_left, calls, running,
                           segments, wire, attempt_done, frame_in,
                           to_stm32_queue, to_pc_queue, tcp_out, links, robot>>

MixCommand ==
    \E i \in 1..Len(MixCalls), ok \in BOOLEAN :
        LET r == CommandResult(MixCalls[i], ok)
        IN  /\ raised' = r.err
            /\ tx_frames' = r.sent
            /\ returned' = <<>>
            /\ last_op' = Op(MixCalls[i].op, MixCalls[i].arg, ok)
            /\ UNCHANGED <<parser_state, rx_buff, bytes_left, calls, running,
                           segments, wire, attempt_done, frame_in,
                           to_stm32_queue, to_pc_queue, tcp_out, links, robot>>

NextMix ==
    \/ RunReceive
    \/ MixCommand

SpecMix == InitMix /\ [][NextMix]_vars

\* ------------------------------------------------------------------------
\* _parse_frame called on a new UartInterface with one byte string of
\* ParseInputs.
\* ------------------------------------------------------------------------
InitCodec ==
    /\ Fresh
    /\ segments = <<>>
    /\ wire = <<>>
    /\ frame_in \in ParseInputs

ParseFrame ==
    /\ last_op.op = "none"
    /\ LET r == _parse_frame(frame_in)
       IN  /\ raised' = r.err
           /\ calls' = calls \o r.calls
    /\ last_op' = Op("_parse_frame", frame_in, TRUE)
    /\ UNCHANGED <<parser_state, rx_buff, bytes_left, running, segments, wire,
                   attempt_done, tx_frames, returned, frame_in,
                   to_stm32_queue, to_pc_queue, tcp_out, links, robot>>

NextCodec == ParseFrame

SpecCodec == InitCodec /\ [][NextCodec]_vars

\* ------------------------------------------------------------------------
\* Properties of the stream parser (specification Spec)
\* ------------------------------------------------------------------------
\* The handler call each well-formed STM32 frame of the input set stands
\* for: the battery level 5 or 138, the arm state READY, the RFID "deadbeef".
ExpectedCall(f) ==
    IF f = BatteryFrame THEN Call("cb_battery_level", <<5>>)
    ELSE IF f = BatteryStartFrame THEN Call("cb_battery_level", <<138>>)
    ELSE IF f = ArmReadyFrame THEN Call("cb_arm_state", <<2>>)
    ELSE Call("cb_rfid_received", <<100, 101, 97, 100, 98, 101, 101, 102>>)

ExpectedCalls(f) == IF f \in PeripheralFrames THEN <<ExpectedCall(f)>> ELSE <<>>

\* Every byte of the stream was handed over, or the loop was left.
FeedingOver == wire = <<>> \/ ~running

\* C1: when a completed frame attempt is followed by a well-formed frame
\* from the STM32, the second frame is parsed without error and triggers
\* exactly one handler call, the one for its type and payload, after the
\* calls of the first.
C1_SecondFrameDispatched ==
    (/\ Len(segments) = 2
     /\ segments[1] \in FrameAttempts
     /\ segments[2] \in PeripheralFrames
     /\ FeedingOver)
    => /\ raised = "none"
       /\ calls = ExpectedCalls(segments[1]) \o <<ExpectedCall(segments[2])>>

\* C2: after every completed frame attempt the parser is IDLE and the
\* accumulation buffer is empty.
C2_ResetAfterAttempt ==
    attempt_done => (parser_state = "IDLE" /\ rx_buff = <<>>)

\* C3: io_bytes_received returns normally for every byte sequence, and the
\* receive loop that owns the parser keeps running.
C3_FeedNeverRaises == raised = "none" /\ running

\* C4: 0x8A 0x99 0x51 fed to a new parser causes no handler call, and a
\* well-formed frame from the STM32 fed right after it is dispatched
\* exactly once.
C4_UnknownTypeThenFrame ==
    (/\ Len(segments) = 2
     /\ segments[1] = UnknownTypeFrame
     /\ segments[2] \in PeripheralFrames)
    => /\ Len(wire) >= Len(segments[2]) => calls = <<>>
       /\ FeedingOver => (raised = "none" /\ calls = <<ExpectedCall(segments[2])>>)

\* The stream is noise bytes, none of them START, then one well-formed
\* frame from the STM32.
NoiseThenFrame ==
    /\ Len(segments) >= 1
    /\ \A i \in 1..(Len(segments) - 1) : segments[i] \in NoiseSegments
    /\ segments[Len(segments)] \in PeripheralFrames

\* C5: on a new parser, noise bytes without START followed by one
\* well-formed frame from the STM32 trigger exactly one handler call, the
\* one of that frame, made when its last byte is consumed, and no error.
C5_NoiseThenFrameDispatchedOnce ==
    NoiseThenFrame
    => /\ raised = "none"
       /\ running
       /\ wire # <<>> => calls = <<>>
       /\ wire = <<>> => calls = <<ExpectedCall(segments[Len(segments)])>>

\* Scenario C was fed whole: 0xFF 0xFF, then the RFID frame, and the only
\* handler call is cb_rfid_received("deadbeef").
C5_Witness ==
    /\ segments = <<<<255>>, <<255>>, RfidFrame>>
    /\ wire = <<>>
    /\ calls = <<Call("cb_rfid_received", <<100, 101, 97, 100, 98, 101, 101, 102>>)>>

\* ------------------------------------------------------------------------
\* Properties of the codec and the command methods
\* (specifications SpecCmd and SpecCodec)
\* ------------------------------------------------------------------------
\* The wire format: the type codes and their fixed payload lengths.
WireCode ==
    [TOOL_ID |-> 1, TOOL_NAME |-> 2, FOLLOW_MODE_ENABLE |-> 4, RFID_VALID |-> 8,
     BATTERY_LEVEL |-> 129, ARM_STATUS |-> 130, RFID_VALUE |-> 132]

WireLength ==
    [TOOL_ID |-> 1, TOOL_NAME |-> 16, FOLLOW_MODE_ENABLE |-> 1, RFID_VALID |-> 1,
     BATTERY_LEVEL |-> 1, ARM_STATUS |-> 1, RFID_VALUE |-> 4]

WireTypeOf(code) == CHOOSE t \in DOMAIN WireCode : WireCode[t] = code

WireCodes == {WireCode[t] : t \in DOMAIN WireCode}

\* A name of ASCII letters and digits only, at least one.
AsciiAlnum(name) ==
    /\ name # <<>>
    /\ \A i \in 1..Len(name) : name[i] \in (48..57) \cup (65..90) \cup (97..122)

\* A name with a character that is neither a letter nor a digit.
HasNonAlnum(name) ==
    \E i \in 1..Len(name) :
        name[i] \notin (48..57) \cup (65..90) \cup (97..122) \cup {233}

\* The 16 payload bytes of a name: padded with spaces, cut after 16.
PadOrTruncate(name) ==
    [i \in 1..16 |-> IF i <= Len(name) THEN name[i] ELSE 32]

\* The last operation was a command with a value of its domain: a tool id
\* in 1..6, an ASCII alphanumeric name of 1 to 16 characters, a boolean.
CommandInDomain ==
    \/ last_op.op = "set_tool_id" /\ last_op.arg \in 1..6
    \/ last_op.op = "set_tool_name" /\ AsciiAlnum(last_op.arg) /\ Len(last_op.arg) <= 16
    \/ last_op.op \in {"is_rfid_valid", "follow_mode_enable"}

CommandType ==
    IF last_op.op = "set_tool_id" THEN "TOOL_ID"
    ELSE IF last_op.op = "set_tool_name" THEN "TOOL_NAME"
    ELSE IF last_op.op = "is_rfid_valid" THEN "RFID_VALID"
    ELSE "FOLLOW_MODE_ENABLE"

CanonicalBytes ==
    IF last_op.op = "set_tool_id" THEN <<last_op.arg>>
    ELSE IF last_op.op = "set_tool_name" THEN PadOrTruncate(last_op.arg)
    ELSE IF last_op.arg THEN <<1>> ELSE <<0>>

\* C6: the frame a command transmits for a value of its domain passes
\* every structural check of _parse_frame and resolves to the command's
\* type with the canonical bytes of the value as payload.
C6_RoundTrip ==
    CommandInDomain
    => /\ Len(tx_frames) = 1
       /\ _parse_frame_checks(tx_frames[1])
              = [err |-> "none", msg_type |-> CommandType, data |-> CanonicalBytes]

C6_Witness ==
    /\ last_op.op = "set_tool_name"
    /\ last_op.arg = Marteau
    /\ Len(tx_frames) = 1
    /\ _parse_frame_checks(tx_frames[1]).msg_type = "TOOL_NAME"

\* C7: _parse_frame rejects a structurally bad frame with the error of the
\* first check it fails, in the order length, start byte, stop byte, type
\* code, payload length, and calls no handler.
C7_StructuralRejection ==
    last_op.op = "_parse_frame"
    => LET f == frame_in
           n == Len(f)
       IN  IF n < 3 THEN raised = "IncompleteFrameError" /\ calls = <<>>
           ELSE IF f[1] # 138 THEN raised = "InvalidFrameStartError" /\ calls = <<>>
           ELSE IF f[n] # 81 THEN raised = "InvalidFrameEndError" /\ calls = <<>>
           ELSE IF f[2] \notin WireCodes
           THEN raised = "UnknownMessageTypeError" /\ calls = <<>>
           ELSE IF n - 3 # WireLength[WireTypeOf(f[2])]
           THEN raised = "InvalidPayloadLengthError" /\ calls = <<>>
           ELSE raised \notin {"IncompleteFrameError", "InvalidFrameStartError",
                               "InvalidFrameEndError", "UnknownMessageTypeError",
                               "InvalidPayloadLengthError"}

\* A battery frame with two payload bytes was rejected for its length.
C7_Witness ==
    /\ last_op.op = "_parse_frame"
    /\ frame_in = <<138, 129, 2, 2, 81>>
    /\ raised = "InvalidPayloadLengthError"
    /\ calls = <<>>

C9_ToolIdRange ==
    last_op.op = "set_tool_id"
    => IF 0 < last_op.arg /\ last_op.arg < 7
       THEN /\ tx_frames = <<<<138, 1, last_op.arg, 81>>>>
            /\ raised = IF last_op.ok THEN "none" ELSE "UartError"
       ELSE /\ tx_frames = <<>>
            /\ raised = "InvalidDataError"

\* set_tool_id(7) was rejected.
C9_Witness ==
    /\ last_op.op = "set_tool_id"
    /\ last_op.arg = 7
    /\ raised = "InvalidDataError"
    /\ tx_frames = <<>>

\* C10: _format_uart on a payload of the registry length of the type
\* returns START, the type code, the payload, STOP; is_rfid_valid and
\* follow_mode_enable send 1 for true and 0 for false as the payload byte.
C10_FrameLayout ==
    /\ (last_op.op = "_format_uart"
        /\ Len(last_op.arg.data) = WireLength[last_op.arg.msg_type])
       => /\ raised = "none"
          /\ returned = <<138, WireCode[last_op.arg.msg_type]>>
                        \o last_op.arg.data \o <<81>>
    /\ last_op.op = "follow_mode_enable"
       => tx_frames = <<<<138, 4, IF last_op.arg THEN 1 ELSE 0, 81>>>>
    /\ last_op.op = "is_rfid_valid"
       => tx_frames = <<<<138, 8, IF last_op.arg THEN 1 ELSE 0, 81>>>>

\* Scenario A: _format_uart(TOOL_ID, [5]) returned 8A 01 05 51.
C10_Witness ==
    /\ last_op.op = "_format_uart"
    /\ last_op.arg = [msg_type |-> "TOOL_ID", data |-> <<5>>]
    /\ returned = <<138, 1, 5, 81>>

\* C11: _format_uart fails PayloadTooLong for every payload longer than 16
\* bytes, fails InvalidData for every payload of at most 16 bytes whose
\* length is not the registry length of the type, and returns a frame only
\* for a payload of the registry length.
C11_EncodeLengthErrors ==
    last_op.op = "_format_uart"
    => LET n == Len(last_op.arg.data)
           t == last_op.arg.msg_type
       IN  /\ n > 16 => (raised = "PayloadTooLongError" /\ returned = <<>>)
           /\ (n <= 16 /\ n # WireLength[t])
              => (raised = "InvalidDataError" /\ returned = <<>>)
           /\ returned # <<>> => Len(returned) - 3 = WireLength[t]

\* A 17-byte payload for TOOL_NAME was refused as too long.
C11_Witness ==
    /\ last_op.op = "_format_uart"
    /\ last_op.arg.msg_type = "TOOL_NAME"
    /\ Len(last_op.arg.data) = 17
    /\ raised = "PayloadTooLongError"

\* C12: a command called with a value of its domain hands the encoded
\* frame to io_send_uart exactly once, whatever io_send_uart returns, and
\* raises UartError exactly when io_send_uart returns False.
C12_TransmitOnce ==
    CommandInDomain
    => /\ tx_frames = <<<<138, WireCode[CommandType]>> \o CanonicalBytes \o <<81>>>>
       /\ (raised = "UartError") <=> ~last_op.ok
       /\ last_op.ok => raised = "none"

\* set_tool_id(5) with a failing io_send_uart: one frame handed over,
\* UartError raised.
C12_Witness ==
    /\ last_op.op = "set_tool_id"
    /\ last_op.arg = 5
    /\ ~last_op.ok
    /\ tx_frames = <<<<138, 1, 5, 81>>>>
    /\ raised = "UartError"

\* C13: an ARM_STATUS frame with payload byte 1, 2, 4 or 8 calls
\* cb_arm_state with that state and nothing else; with any other payload
\* byte it fails InvalidData and calls no handler.
C13_ArmStatusDispatch ==
    (/\ last_op.op = "_parse_frame"
     /\ Len(frame_in) = 4
     /\ frame_in[1] = 138 /\ frame_in[2] = 130 /\ frame_in[4] = 81)
    => IF frame_in[3] \in {1, 2, 4, 8}
       THEN raised = "none" /\ calls = <<Call("cb_arm_state", <<frame_in[3]>>)>>
       ELSE raised = "InvalidDataError" /\ calls = <<>>

\* Scenario B: 8A 82 02 51 called cb_arm_state(READY).
C13_Witness ==
    /\ last_op.op = "_parse_frame"
    /\ frame_in = <<138, 130, 2, 81>>
    /\ calls = <<Call("cb_arm_state", <<2>>)>>

\* The lowercase hexadecimal digit of a value 0..15, as a code point.
LowerHexDigit(n) == IF n < 10 THEN 48 + n ELSE 87 + n

C15_DeviceFrameIgnored ==
    (/\ last_op.op = "_parse_frame"
     /\ Len(frame_in) >= 3
     /\ frame_in[1] = 138 /\ frame_in[Len(frame_in)] = 81
     /\ frame_in[2] \in {1, 2, 4, 8}
     /\ Len(frame_in) - 3 = WireLength[WireTypeOf(frame_in[2])])
    => (raised = "none" /\ calls = <<>>)

\* The TOOL_NAME frame of sixteen 'a' was parsed and ignored.
C15_Witness ==
    /\ last_op.op = "_parse_frame"
    /\ frame_in = <<138, 2>> \o [i \in 1..16 |-> 97] \o <<81>>
    /\ raised = "none"
    /\ calls = <<>>

\* The field name a queue key carries: the value of a MessageField member,
\* or the JSON key string itself.
FieldName(key) ==
    IF key.kind = "MessageField" THEN MessageField[key.name] ELSE key.name

\* The command method that goes with each field name of a command.
MatchingMethod ==
    [tool_number |-> "set_tool_id", tool_name |-> "set_tool_name",
     user_follow_enabled |-> "follow_mode_enable",
     is_rfid_valid |-> "is_rfid_valid"]

CommandFieldNames ==
    {"tool_number", "tool_name", "user_follow_enabled", "is_rfid_valid"}

AllFieldNames ==
    {MessageField[m] : m \in DOMAIN MessageField}

\* C16: every message taken from the command queue whose field name,
\* whether put by the RFID handler or as a JSON key by the TCP relay, is
\* tool_number, tool_name, user_follow_enabled or is_rfid_valid makes the
\* loop call the matching command method.
C16_QueuedFieldCallsCommand ==
    (/\ last_op.op = "_send_next_message_from_queue"
     /\ FieldName(last_op.arg.message.key) \in CommandFieldNames)
    => last_op.arg.method = MatchingMethod[FieldName(last_op.arg.message.key)]

\* The RFID handler's message did reach is_rfid_valid and sent its frame.
C16_Witness ==
    /\ last_op.op = "_send_next_message_from_queue"
    /\ last_op.arg.message.key = Member("IS_RFID_VALID")
    /\ last_op.arg.method = "is_rfid_valid"
    /\ tx_frames = <<<<138, 8, 1, 81>>>>

\* C17: a message taken from the command queue whose field name is none of
\* the known ones is logged and dropped: no frame is sent, nothing is
\* raised, the loop keeps running and takes the next queued message.
C17_UnknownFieldDropped ==
    (/\ last_op.op = "_send_next_message_from_queue"
     /\ FieldName(last_op.arg.message.key) \notin AllFieldNames)
    => /\ tx_frames = <<>>
       /\ raised = "none"
       /\ running
       /\ last_op.arg.method = "none"
       /\ last_op.arg.logged
       /\ (to_stm32_queue # <<>> => ENABLED RunSend)

\* The message with key "hello" was dropped while another message waits
\* behind it and the loop is still running.
C17_Witness ==
    /\ last_op.op = "_send_next_message_from_queue"
    /\ last_op.arg.message.key = StrKey("hello")
    /\ last_op.arg.logged
    /\ tx_frames = <<>>
    /\ running
    /\ to_stm32_queue # <<>>
    /\ ENABLED RunSend

\* One object fed the bytes of fed alone, one io_bytes_received call per
\* byte, from the state after __init__.
RECURSIVE FedAlone(_, _)
FedAlone(sofar, fed) ==
    IF fed = <<>> THEN sofar
    ELSE LET r == io_bytes_received(sofar.sess, <<Head(fed)>>)
         IN  FedAlone([sess |-> r.sess, calls |-> sofar.calls \o r.calls,
                       raised |-> r.err], Tail(fed))

Alone(fed) == FedAlone([sess |-> NewSession, calls |-> <<>>, raised |-> "none"], fed)

\* C18: whatever the interleaving of the byte feeds on two parser
\* sessions, each session's state, buffer, counter and handler calls are
\* those it has when fed its own bytes alone.
C18_SessionsIndependent ==
    \A id \in LinkIds :
        LET alone == Alone(links.obj[id].fed)
        IN  /\ LinkSession(links, id) = alone.sess
            /\ links.obj[id].calls = alone.calls
            /\ links.obj[id].raised = alone.raised

\* Link 1 has just dispatched the battery frame 8A 81 51 51 and link 2
\* is in the middle of a frame of its own.
C18_Witness ==
    /\ links.obj[1].fed = <<138, 129, 81, 81>>
    /\ links.obj[1].calls = <<Call("cb_battery_level", <<81>>)>>
    /\ links.obj[2].fed = <<138, 129>>
    /\ LinkSession(links, 2) = [parser_state |-> "READING_DATA",
                                rx_buff |-> <<138, 129>>, bytes_left |-> 1]
    /\ last_op.arg = <<1, 81>>

\* The number of bytes of the input stream handed to the parser so far.
Consumed == Len(Concat(segments)) - Len(wire)

\* C19: on a new parser, after START and a type byte that names no
\* message type, the very next byte is stored in the buffer, completes the
\* frame attempt as the third byte from START, and leaves the parser IDLE.
C19_UnknownTypeNextByteIsStop ==
    (/\ Len(segments) >= 1
     /\ segments[1] = UnknownTypeFrame
     /\ Consumed = Len(UnknownTypeFrame))
    => /\ parser_state = "IDLE"
       /\ attempt_done
       /\ rx_buff = UnknownTypeFrame

\* C20: whenever the parser is in READING_HEADER, which it enters from
\* IDLE on a START byte and leaves on the next byte, the buffer holds
\* exactly that START byte and one byte is left to read.
C20_FreshBufferOnStart ==
    parser_state = "READING_HEADER"
    => (rx_buff = <<_START_BYTE>> /\ bytes_left = 1)

\* The stream of SpecFeed: where its frame attempt starts, the bytes the
\* buffer holds before it, the type its header names and the number of
\* bytes consumed counting from its START.
AttemptStart == Len(segments[1]) + 1

StaleBytes == IF segments[1] = BatteryFrame THEN BatteryFrame ELSE <<>>

AttemptType == MessageType_from_bytes(Concat(segments)[AttemptStart + 1])

FromStart == Consumed - AttemptStart + 1

\* C21: after START and the code of a known type T, the parser appends the
\* next length(T) bytes whatever their values and then one footer byte: it
\* is out of IDLE until 3 + length(T) bytes from START were consumed, and
\* at that byte the frame attempt is made and the parser is IDLE again.
C21_AttemptLength ==
    AttemptType # "ValueError" =>
    LET n == MessageType[AttemptType].data_len
    IN  /\ (FromStart >= 1 /\ FromStart < 3 + n)
           => /\ parser_state # "IDLE"
              /\ rx_buff = StaleBytes \o SubSeq(Concat(segments), AttemptStart, Consumed)
        /\ FromStart = 3 + n
           => /\ parser_state = "IDLE"
              /\ attempt_done
              /\ bytes_left = 0
              /\ rx_buff = StaleBytes \o SubSeq(Concat(segments), AttemptStart, Consumed)

\* The RFID frame with payload 8A 51 8A 51 was read to its footer and
\* dispatched as "8a518a51".
C21_Witness ==
    /\ segments = <<<<255, 81>>, <<138, 132, 138, 81, 138, 81, 81>>>>
    /\ FromStart = 7
    /\ parser_state = "IDLE"
    /\ attempt_done
    /\ calls = <<Call("cb_rfid_received", <<56, 97, 53, 49, 56, 97, 53, 49>>)>>

\* C22: bytes other than START handed to a parser that is IDLE leave its
\* state, its buffer and its counter as they were, call no handler and
\* raise nothing.
C22_IdleDiscardsNoise ==
    [][(/\ parser_state = "IDLE"
        /\ last_op'.op = "io_bytes_received"
        /\ \A i \in 1..Len(last_op'.arg) : last_op'.arg[i] # _START_BYTE)
       => (/\ parser_state' = "IDLE"
           /\ rx_buff' = rx_buff
           /\ bytes_left' = bytes_left
           /\ calls' = calls
           /\ raised' = "none")]_vars

\* After the battery frame 8A 81 51 51 was dispatched, two more bytes 51
\* were handed over and the parser is as the frame left it.
C22_Witness ==
    /\ segments = <<<<>>, <<138, 129>> \o Repeat(81, 16) \o <<81>>>>
    /\ Consumed = 6
    /\ last_op.arg = <<81, 81>>
    /\ parser_state = "IDLE"
    /\ rx_buff = <<138, 129, 81, 81>>
    /\ calls = <<Call("cb_battery_level", <<81>>)>>

\* The handler calls a well-formed frame of type t with that payload
\* stands for, for the payloads of SpecFeed (none of them an arm state).
HandlerCallsFor(t, payload) ==
    IF t = "BATTERY_LEVEL" THEN <<Call("cb_battery_level", <<payload[1]>>)>>
    ELSE IF t = "RFID_VALUE"
    THEN <<Call("cb_rfid_received",
                [i \in 1..8 |-> LowerHexDigit(IF i % 2 = 1
                                              THEN payload[(i + 1) \div 2] \div 16
                                              ELSE payload[i \div 2] % 16)])>>
    ELSE <<>>

\* C23: handlers are called only in the io_bytes_received call that
\* consumes the terminating byte of a frame, and the call for a well-formed
\* frame is made in that very call, not later.
C23_DispatchWithLastByte ==
    [][AttemptType # "ValueError" =>
       LET n == MessageType[AttemptType].data_len
           last == AttemptStart + 2 + n
           first_last == Len(segments[1])
           Consumes(pos) == Consumed < pos /\ pos <= Consumed'
           framed == segments[1] = BatteryFrame
       IN  /\ calls' # calls => (Consumes(last) \/ (framed /\ Consumes(first_last)))
           /\ (framed /\ Consumes(first_last))
              => calls' = calls \o <<Call("cb_battery_level", <<5>>)>>
           /\ (/\ ~framed
               /\ Consumes(last)
               /\ Len(segments[2]) >= 3 + n
               /\ segments[2][3 + n] = _STOP_BYTE)
              => calls' = calls \o HandlerCallsFor(AttemptType, SubSeq(segments[2], 3, 2 + n))
      ]_vars

\* The call handing over the single byte 51 that ends 8A 81 8A 51 called
\* cb_battery_level(138).
C23_Witness ==
    /\ segments = <<<<>>, <<138, 129, 138, 81>>>>
    /\ Consumed = 4
    /\ last_op.arg = <<81>>
    /\ calls = <<Call("cb_battery_level", <<138>>)>>

\* The commands of the API.
CommandNames == {"set_tool_id", "set_tool_name", "is_rfid_valid", "follow_mode_enable"}

\* C24: whatever commands were called between the io_bytes_received calls,
\* and whether they failed or not, the parser state, the buffer, the
\* counter and the handler calls are those of the bytes consumed so far fed
\* to a new parser with no command in between.
C24_CommandsLeaveParser ==
    LET r == io_bytes_received(NewSession, SubSeq(Concat(segments), 1, Consumed))
    IN  /\ Session = r.sess
        /\ calls = r.calls

\* set_tool_id(0) failed in the middle of the battery frame, and the
\* parser still holds the two header bytes.
C24_Witness ==
    /\ last_op.op = "set_tool_id"
    /\ last_op.arg = 0
    /\ raised = "InvalidDataError"
    /\ segments = <<BatteryFrame>>
    /\ Consumed = 2
    /\ parser_state = "READING_DATA"
    /\ rx_buff = <<138, 129>>
    /\ bytes_left = 1

\* The is_rfid_valid messages of a queue, and the values they carry.
IsRfidValidMessage(m) == m.key = Member("IS_RFID_VALID")

RfidValues(queue) ==
    LET ms == SelectSeq(queue, IsRfidValidMessage)
    IN  [i \in 1..Len(ms) |-> ms[i].value]

IsRfidCall(c) == c.cb = "cb_rfid_received"

\* What a step appended to a sequence.
Appended(old, new) == SubSeq(new, Len(old) + 1, Len(new))

RfidValidOne == <<138, 8, 1, 81>>

\* C25: every cb_rfid_received(rfid) call of a receive step puts one
\* is_rfid_valid message on to_stm32_queue and one on to_pc_queue, both
\* with the value rfid = RFID_UID; and a step that sends RFID_VALID = 1
\* comes after a cb_rfid_received call with RFID_UID.
C25_RfidValidity ==
    [][/\ wire' # wire
          => LET rfids == SelectSeq(Appended(calls, calls'), IsRfidCall)
                 expected == [i \in 1..Len(rfids) |-> rfids[i].arg = RFID_UID]
             IN  /\ RfidValues(Appended(to_stm32_queue, to_stm32_queue')) = expected
                 /\ RfidValues(Appended(to_pc_queue, to_pc_queue')) = expected
       /\ (tx_frames' # tx_frames /\ tx_frames' = <<RfidValidOne>>)
          => \E i \in 1..Len(calls) : calls[i] = Call("cb_rfid_received", RFID_UID)
      ]_vars

\* The frame with another identifier was received: one message with the
\* value False waits on each queue.
C25_Witness ==
    /\ segments = <<OtherRfidFrame>>
    /\ wire = <<>>
    /\ calls = <<Call("cb_rfid_received", <<48, 48, 48, 97, 102, 48, 57, 98>>)>>
    /\ RfidValues(to_stm32_queue) = <<FALSE>>
    /\ RfidValues(to_pc_queue) = <<FALSE>>

\* The processes of each kind that were started and have not ended.
AliveTcp == {i \in 1..Len(robot.tcp) : robot.tcp[i].state \in {"started", "sleeping"}}

AliveUart == {i \in 1..Len(robot.uart) : robot.uart[i].state # "exited"}

\* C26: the TCP server of a started TCP process listens and holds the two
\* queues created in main, the ones the UART driver of the UART process
\* holds.
C26_SharedQueues ==
    /\ \A i \in 1..Len(robot.tcp) :
         robot.tcp[i].state = "sleeping"
         => /\ robot.tcp[i].listening
            /\ robot.tcp[i].server.to_stm32_queue = MainToStm32Queue
            /\ robot.tcp[i].server.to_pc_queue = MainToPcQueue
    /\ \A i \in 1..Len(robot.uart) :
         robot.uart[i].state = "running"
         => /\ robot.uart[i].driver.to_stm32_queue = MainToStm32Queue
            /\ robot.uart[i].driver.to_pc_queue = MainToPcQueue

\* C30: at most one TCP server process and at most one UART manager
\* process are alive at any time.
C30_OnePair ==
    /\ Cardinality(AliveTcp) <= 1
    /\ Cardinality(AliveUart) <= 1

\* C27: every message put on to_stm32_queue is eventually taken and
\* handled by the loop of run(), whatever happened to the messages before
\* it.  The loop is the only one to take messages and nothing starts it
\* again once it was left, so this needs the loop to be alive whenever a
\* message waits.
C27_EveryCommandHandled ==
    to_stm32_queue # <<>> => running

\* C28: between io_bytes_received calls the counter goes with the parser
\* state: 0 in IDLE, 1 in READING_HEADER, 1 in READING_FOOTER, from 0 to 16
\* in READING_DATA; it is never negative.
C28_CounterTiedToState ==
    /\ bytes_left >= 0
    /\ parser_state = "IDLE" => bytes_left = 0
    /\ parser_state = "READING_HEADER" => bytes_left = 1
    /\ parser_state = "READING_FOOTER" => bytes_left = 1
    /\ parser_state = "READING_DATA" => bytes_left \in 0..16

\* The header of a TOOL_NAME frame was read: sixteen bytes are left.
C28_Witness ==
    /\ parser_state = "READING_DATA"
    /\ bytes_left = 16
    /\ FromStart = 2
    /\ AttemptType = "TOOL_NAME"

\* The exceptions with which a command refuses its value.
ValidationErrors ==
    {"InvalidDataError", "PayloadTooLongError", "UnicodeEncodeError"}

\* C29: a command that refuses its value (tool id out of range, name not
\* alphanumeric, payload too long or of the wrong length) hands nothing to
\* io_send_uart.
C29_RejectedNotSent ==
    (last_op.op \in CommandNames /\ raised \in ValidationErrors)
    => tx_frames = <<>>

\* set_tool_id(7) was refused and nothing was handed to io_send_uart,
\* which would have returned True.
C29_Witness ==
    /\ last_op.op = "set_tool_id"
    /\ last_op.arg = 7
    /\ last_op.ok
    /\ raised = "InvalidDataError"
    /\ tx_frames = <<>>


\* The errors with which _parse_frame refuses a buffer that is too short or
\* does not begin with START.
MalformedBufferErrors == {"IncompleteFrameError", "InvalidFrameStartError"}

\* C31: whenever a byte handed to io_bytes_received makes the parser call
\* _parse_frame, the buffer it hands over begins with START and holds at
\* least 3 bytes; io_bytes_received never raises IncompleteFrameError or
\* InvalidFrameStartError.
C31_ParserBufferWellFormed ==
    /\ raised \notin MalformedBufferErrors
    /\ attempt_done
       => /\ Len(rx_buff) >= _UART_MIN_FRAME_LENGTH
          /\ rx_buff[1] = _START_BYTE

\* After the noise byte FF, the attempt 8A 99 51 of an unknown type and one
\* more byte 51 were consumed: _parse_frame was handed the three bytes
\* 8A 99 51 and refused them for their type.
C31_Witness ==
    /\ segments = <<<<255>>, UnknownTypeFrame, <<81>>>>
    /\ wire = <<>>
    /\ attempt_done
    /\ rx_buff = <<138, 153, 81>>
    /\ raised = "UnknownMessageTypeError"

====
